---- MODULE Spec2Model ----
(***************************************************************************)
(* User-account backend of ashwinyue/peanut: the Account Service            *)
(* (service.UserService), the Record Store (repository.UserRepository, in   *)
(* its GORM and its pgx form) and the users table they share.               *)
(*                                                                          *)
(* Every repository call is one SQL statement and is one atomic step; a     *)
(* request is a sequence of such steps and requests of different workers    *)
(* interleave freely between them.  Any statement may fail with a           *)
(* connectivity error.  NOW() is a counter that moves forward after every   *)
(* statement that writes a timestamp.                                       *)
(***************************************************************************)
EXTENDS Integers, Sequences, FiniteSets, TLC

VARIABLES
  backend,       \* which UserRepository the binary is built with
  users,         \* the rows of table users
  users_id_seq,  \* last value of the BIGSERIAL sequence of users.id
  now,           \* the clock NOW() reads
  pc,            \* per worker: the repository call its request makes next
  req,           \* per worker: the request it serves
  user,          \* per worker: the service method's *model.User
  err,           \* per worker: the error of its last repository call
  ret,           \* per worker: the error the service method returned
  faults,        \* statements that have failed with a connectivity error
  nops,          \* requests started
  created,       \* history: ids of the successful Creates, in order
  freed,         \* history: ids of the rows deleted
  fetched,       \* history, per worker: the row its Update fetched
  held,          \* responses are held back, so that two results stay in view
  params,        \* per worker: the model.UserQueryParams its List was given
  total,         \* per worker: the total its List has counted
  page_data,     \* per worker: the answer of its List
  pages          \* history: the pages a walk through the list has read

list_vars == <<params, total, page_data, pages>>

vars == <<backend, users, users_id_seq, now, pc, req, user, err, ret,
          faults, nops, created, freed, fetched, held, list_vars>>

----------------------------------------------------------------------------
(* Bounds of the model *)

\* requests started in one behaviour
MaxOps == 2
\* statements that fail with a connectivity error in one behaviour
MaxFaults == 1
\* width of a Go int in the model, in bits (64 in the build)
IntBits == 16
\* rows of the largest table a walk through the list reads
MaxRows == 23

----------------------------------------------------------------------------
(* Program constants and input domains *)

UserStatusInactive == 0
UserStatusActive == 1
UserStatusBanned == 2

Backends == {"gorm", "pgx"}
Workers == {"w1", "w2"}
Usernames == {"alice", "bob"}
Emails == {"a@x.com", "b@x.com"}
ReqIds == {1, 2}
\* Status *int: the empty set is nil, {s} points to s
NilStatus == {}
StatusInputs == {NilStatus, {UserStatusBanned}}

\* binding:"omitempty,min=1,max=100" of UserQueryParams.PageSize
MaxPageSize == 100
\* pageSize = 10 when params.PageSize < 1
DefaultPageSize == 10

\* the largest int, and int arithmetic: the result of an operation wraps
MaxInt == 2^(IntBits - 1) - 1
Wrap(x) == ((x + 2^(IntBits - 1)) % 2^IntBits) - 2^(IntBits - 1)

\* the bytes of the strings that are matched by LIKE
Chars(s) ==
  CASE s = "" -> << >>
    [] s = "alice" -> <<"a", "l", "i", "c", "e">>
    [] s = "bob" -> <<"b", "o", "b">>
    [] s = "carol" -> <<"c", "a", "r", "o", "l">>
    [] s = "a@x.com" -> <<"a", "@", "x", ".", "c", "o", "m">>
    [] s = "b@x.com" -> <<"b", "@", "x", ".", "c", "o", "m">>
    [] s = "c@x.com" -> <<"c", "@", "x", ".", "c", "o", "m">>
    [] s = "li" -> <<"l", "i">>
    [] s = "b@" -> <<"b", "@">>
    [] s = "_" -> <<"_">>

UserQueryParams(u, e, s, page, size) ==
  [Username |-> u, Email |-> e, Status |-> s, Page |-> page, PageSize |-> size]

NoParams == UserQueryParams("", "", NilStatus, 0, 0)

\* the filters and the windows of the List requests: username, email, status
\* and page, page_size as they stand in the query string
FilterInputs ==
  { <<"", "", NilStatus>>, <<"li", "", NilStatus>>, <<"_", "", NilStatus>>,
    <<"", "b@", {UserStatusActive}>> }
WindowInputs ==
  { <<0, 0>>, <<1, 1>>, <<2, 1>>, <<2, 2>>, <<-1, DefaultPageSize>>, <<1, -1>>,
    <<1, MaxPageSize>>, <<1, MaxPageSize + 1>>, <<MaxInt, MaxPageSize>> }

\* response.PageData with the status of the answer; limit and offset are
\* the arguments the SELECT of the page was given
NoPageData ==
  [code |-> "none", list |-> << >>, total |-> 0, page |-> 0, page_size |-> 0,
   limit |-> 0, offset |-> 0]

\* the zero value of model.User
NoUser ==
  [ID |-> 0, Username |-> "", Email |-> "", Status |-> 0,
   CreatedAt |-> 0, UpdatedAt |-> 0]

NoReq == [op |-> "none", id |-> 0, username |-> "", email |-> "", status |-> NilStatus]

CreateUserRequest(u, e) ==
  [op |-> "Create", id |-> 0, username |-> u, email |-> e, status |-> NilStatus]

UpdateUserRequest(i, u, e, s) ==
  [op |-> "Update", id |-> i, username |-> u, email |-> e, status |-> s]

IdRequest(o, i) ==
  [op |-> o, id |-> i, username |-> "", email |-> "", status |-> NilStatus]

\* does at least one statement of the behaviour still have a fault to spend
FaultChoice == IF faults < MaxFaults THEN {FALSE, TRUE} ELSE {FALSE}

----------------------------------------------------------------------------
(* The users table *)

RowsById(tbl, id) == {r \in tbl : r.ID = id}
RowsByUsername(tbl, name) == {r \in tbl : r.Username = name}
RowsByEmail(tbl, mail) == {r \in tbl : r.Email = mail}

\* the table without the UNIQUE constraint on email
ConstraintViolationNoEmail(others, row) ==
  IF RowsById(others, row.ID) # {} THEN "users_pkey"
  ELSE IF RowsByUsername(others, row.Username) # {} THEN "users_username_key"
  ELSE "nil"

\* the constraint an INSERT / UPDATE of row violates among the rows `others`,
\* in the order the schema declares them
ConstraintViolation(others, row) ==
  IF RowsById(others, row.ID) # {} THEN "users_pkey"
  ELSE IF RowsByUsername(others, row.Username) # {} THEN "users_username_key"
  ELSE IF RowsByEmail(others, row.Email) # {} THEN "users_email_key"
  ELSE "nil"

\* the trigger writing the zero time instead of NOW()
UpdatedAtZeroValue(row, t) == [row EXCEPT !.UpdatedAt = 0]

\* BEFORE UPDATE trigger: NEW.updated_at = NOW()
update_updated_at_column(row, t) == [row EXCEPT !.UpdatedAt = t]


\* the first row of a non-empty result set (ORDER BY id LIMIT 1)
FirstRow(rows) == CHOOSE r \in rows : \A q \in rows : r.ID <= q.ID

----------------------------------------------------------------------------
(* Record Store: repository.UserRepository.                                 *)
(* Each operator is one call: its arguments are the table, the call's       *)
(* arguments and whether the statement fails with a connectivity error;     *)
(* its value holds the error returned (err), the struct filled in or        *)
(* returned (user) and the table afterwards (users).                        *)
(* Errors: "nil"; "conn", a connection / timeout error; "not_found", the    *)
(* no-row error (GORM: the text error built for gorm.ErrRecordNotFound or   *)
(* for RowsAffected = 0, pgx: pgx.ErrNoRows); "users_username_key" and      *)
(* "users_email_key", the unique violation the database reports.  None of   *)
(* them is one of the service's sentinel errors.                            *)
(***************************************************************************)

\* RepoCreate with updated_at read from the clock a moment after created_at
RepoCreateTwoClocks(b, tbl, seq, t, u, fail) ==
  IF fail THEN [err |-> "conn", user |-> u, users |-> tbl, seq |-> seq]
  ELSE LET row == [u EXCEPT !.ID = seq + 1, !.CreatedAt = t, !.UpdatedAt = t + 1]
           v == ConstraintViolation(tbl, row)
       IN IF v # "nil"
          THEN [err |-> v, user |-> u, users |-> tbl, seq |-> seq + 1]
          ELSE [err |-> "nil", user |-> row, users |-> tbl \cup {row}, seq |-> seq + 1]

\* RepoCreate with the id taken from the number of rows instead of a sequence
RepoCreateCountId(b, tbl, seq, t, u, fail) ==
  IF fail THEN [err |-> "conn", user |-> u, users |-> tbl, seq |-> seq]
  ELSE LET row == [u EXCEPT !.ID = Cardinality(tbl) + 1, !.CreatedAt = t,
                            !.UpdatedAt = t]
           v == ConstraintViolation(tbl, row)
       IN IF v # "nil"
          THEN [err |-> v, user |-> u, users |-> tbl, seq |-> seq + 1]
          ELSE [err |-> "nil", user |-> row, users |-> tbl \cup {row}, seq |-> seq + 1]

\* INSERT ... RETURNING id, created_at, updated_at.  The id is drawn from the
\* BIGSERIAL sequence before the constraints are checked, so a rejected
\* insert uses an id up too.  GORM fills CreatedAt and UpdatedAt with one
\* reading of the clock, the pgx statement writes NOW() twice.
RepoCreate(b, tbl, seq, t, u, fail) ==
  IF fail THEN [err |-> "conn", user |-> u, users |-> tbl, seq |-> seq]
  ELSE LET row == [u EXCEPT !.ID = seq + 1, !.CreatedAt = t, !.UpdatedAt = t]
           v == ConstraintViolation(tbl, row)
       IN IF v # "nil"
          THEN [err |-> v, user |-> u, users |-> tbl, seq |-> seq + 1]
          ELSE [err |-> "nil", user |-> row, users |-> tbl \cup {row}, seq |-> seq + 1]

\* SELECT ... WHERE id = $1
RepoGetByID(b, tbl, id, fail) ==
  IF fail THEN [err |-> "conn", user |-> NoUser]
  ELSE IF RowsById(tbl, id) = {} THEN [err |-> "not_found", user |-> NoUser]
  ELSE [err |-> "nil", user |-> FirstRow(RowsById(tbl, id))]

\* SELECT ... WHERE username = $1
RepoGetByUsername(b, tbl, name, fail) ==
  IF fail THEN [err |-> "conn", user |-> NoUser]
  ELSE IF RowsByUsername(tbl, name) = {} THEN [err |-> "not_found", user |-> NoUser]
  ELSE [err |-> "nil", user |-> FirstRow(RowsByUsername(tbl, name))]

\* SELECT ... WHERE email = $1
RepoGetByEmail(b, tbl, mail, fail) ==
  IF fail THEN [err |-> "conn", user |-> NoUser]
  ELSE IF RowsByEmail(tbl, mail) = {} THEN [err |-> "not_found", user |-> NoUser]
  ELSE [err |-> "nil", user |-> FirstRow(RowsByEmail(tbl, mail))]

\* RepoExistsByUsername with count > 1 for count > 0
RepoExistsByUsernameOffByOne(b, tbl, name, fail) ==
  IF fail THEN [err |-> "conn", exists |-> FALSE]
  ELSE [err |-> "nil", exists |-> Cardinality(RowsByUsername(tbl, name)) > 1]

\* SELECT COUNT(*) / SELECT EXISTS(...) WHERE username = $1
RepoExistsByUsername(b, tbl, name, fail) ==
  IF fail THEN [err |-> "conn", exists |-> FALSE]
  ELSE [err |-> "nil", exists |-> Cardinality(RowsByUsername(tbl, name)) > 0]

\* SELECT COUNT(*) / SELECT EXISTS(...) WHERE email = $1
RepoExistsByEmail(b, tbl, mail, fail) ==
  IF fail THEN [err |-> "conn", exists |-> FALSE]
  ELSE [err |-> "nil", exists |-> Cardinality(RowsByEmail(tbl, mail)) > 0]

\* db.Save(user): UPDATE of every column WHERE id = user.ID; when that
\* matches no row, Save goes on to INSERT ... ON CONFLICT (id) DO UPDATE with
\* the struct's own id, so the RowsAffected = 0 branch is never taken.
GormSave(tbl, t, u, fail) ==
  IF fail THEN [err |-> "conn", user |-> u, users |-> tbl]
  ELSE LET others == tbl \ RowsById(tbl, u.ID)
           v == ConstraintViolation(others, u)
           row == update_updated_at_column(u, t)
       IN IF v # "nil"
          THEN [err |-> v, user |-> u, users |-> tbl]
          ELSE [err |-> "nil", user |-> row, users |-> others \cup {row}]

\* UPDATE users SET username, email, status, updated_at = NOW()
\* WHERE id = $4 RETURNING updated_at; Scan fails with ErrNoRows on no row
PgxUpdate(tbl, t, u, fail) ==
  IF fail THEN [err |-> "conn", user |-> u, users |-> tbl]
  ELSE IF RowsById(tbl, u.ID) = {} THEN [err |-> "not_found", user |-> u, users |-> tbl]
  ELSE LET old == FirstRow(RowsById(tbl, u.ID))
           others == tbl \ RowsById(tbl, u.ID)
           row == update_updated_at_column(
                    [old EXCEPT !.Username = u.Username, !.Email = u.Email,
                                !.Status = u.Status], t)
           v == ConstraintViolation(others, row)
       IN IF v # "nil"
          THEN [err |-> v, user |-> u, users |-> tbl]
          ELSE [err |-> "nil", user |-> [u EXCEPT !.UpdatedAt = row.UpdatedAt],
                users |-> others \cup {row}]

\* RepoUpdate that leaves the status column out of the statement
RepoUpdateSkipsStatus(b, tbl, t, u, fail) ==
  LET v == IF RowsById(tbl, u.ID) = {} THEN u
           ELSE [u EXCEPT !.Status = FirstRow(RowsById(tbl, u.ID)).Status]
  IN IF b = "gorm" THEN GormSave(tbl, t, v, fail) ELSE PgxUpdate(tbl, t, v, fail)

RepoUpdate(b, tbl, t, u, fail) ==
  IF b = "gorm" THEN GormSave(tbl, t, u, fail) ELSE PgxUpdate(tbl, t, u, fail)

\* RepoDelete that removes the row and then reports that there was none
RepoDeleteReportsNoRow(b, tbl, id, fail) ==
  IF fail THEN [err |-> "conn", users |-> tbl]
  ELSE [err |-> "not_found", users |-> tbl \ RowsById(tbl, id)]

\* DELETE FROM users WHERE id = $1.  GORM form: RowsAffected = 0 is the
\* no-row error; pgx form: the command tag is dropped, no row is no error.
RepoDelete(b, tbl, id, fail) ==
  IF fail THEN [err |-> "conn", users |-> tbl]
  ELSE IF RowsById(tbl, id) = {}
       THEN [err |-> IF b = "gorm" THEN "not_found" ELSE "nil", users |-> tbl]
       ELSE [err |-> "nil", users |-> tbl \ RowsById(tbl, id)]

\* s LIKE p: % matches any run of bytes, _ any one byte.  (The escape
\* character is left out; no input holds a backslash.)
RECURSIVE Like(_, _)
Like(p, s) ==
  IF p = << >> THEN s = << >>
  ELSE IF Head(p) = "%" THEN Like(Tail(p), s) \/ (s # << >> /\ Like(p, Tail(s)))
  ELSE /\ s # << >>
       /\ Head(p) = "_" \/ Head(p) = Head(s)
       /\ Like(Tail(p), Tail(s))

\* the WHERE clause List builds: one condition per filter that is set
Where(r, p) ==
  /\ p.Username # "" => Like(<<"%">> \o Chars(p.Username) \o <<"%">>, Chars(r.Username))
  /\ p.Email # "" => Like(<<"%">> \o Chars(p.Email) \o <<"%">>, Chars(r.Email))
  /\ p.Status # NilStatus => r.Status \in p.Status

\* ORDER BY id DESC
RECURSIVE OrderByIdDesc(_)
OrderByIdDesc(rows) ==
  IF rows = {} THEN << >>
  ELSE LET m == CHOOSE r \in rows : \A q \in rows : q.ID <= r.ID
       IN <<m>> \o OrderByIdDesc(rows \ {m})

\* page, pageSize and offset as List computes them
Page(p) == IF p.Page < 1 THEN 1 ELSE p.Page
PageSize(p) == IF p.PageSize < 1 THEN DefaultPageSize ELSE p.PageSize
Offset(p) == Wrap((Page(p) - 1) * PageSize(p))

\* LIMIT l OFFSET o of the ordered rows
LimitOffset(s, l, o) ==
  IF o >= Len(s) THEN << >>
  ELSE SubSeq(s, o + 1, IF o + l > Len(s) THEN Len(s) ELSE o + l)

\* List, first statement: SELECT COUNT(*) ... WHERE ...
RepoCount(b, tbl, p, fail) ==
  IF fail THEN [err |-> "conn", total |-> 0]
  ELSE [err |-> "nil", total |-> Cardinality({r \in tbl : Where(r, p)})]

\* RepoFind with the page number used as the offset
RepoFindOffsetPage(b, tbl, p, fail) ==
  [err |-> IF fail THEN "conn" ELSE "nil", limit |-> PageSize(p), offset |-> Page(p) - 1,
   users |-> IF fail THEN << >>
             ELSE LimitOffset(OrderByIdDesc({r \in tbl : Where(r, p)}),
                              PageSize(p), Page(p) - 1)]

\* List, second statement: SELECT ... WHERE ... ORDER BY id DESC LIMIT
\* pageSize OFFSET offset.  GORM writes OFFSET only when offset > 0; in the
\* pgx form a negative OFFSET is an error of the statement.
RepoFind(b, tbl, p, fail) ==
  IF fail THEN [err |-> "conn", users |-> << >>, limit |-> PageSize(p), offset |-> Offset(p)]
  ELSE IF b = "pgx" /\ Offset(p) < 0
       THEN [err |-> "offset", users |-> << >>, limit |-> PageSize(p), offset |-> Offset(p)]
       ELSE [err |-> "nil", limit |-> PageSize(p), offset |-> Offset(p),
             users |-> LimitOffset(OrderByIdDesc({r \in tbl : Where(r, p)}),
                                   PageSize(p), IF Offset(p) > 0 THEN Offset(p) ELSE 0)]

----------------------------------------------------------------------------
(* Transport: handler.UserHandler.                                          *)
(***************************************************************************)

\* what the handler makes of the error a service call returned: the
\* errors.Is chain of Create, Get, Update and Delete
Outcome(e) ==
  IF e = "nil" THEN "Success"
  ELSE IF e = "ErrUserNotFound" THEN "NotFound"
  ELSE IF e = "ErrUserAlreadyExists" THEN "AlreadyExists(username)"
  ELSE IF e = "ErrEmailAlreadyUsed" THEN "AlreadyExists(email)"
  ELSE "StoreError"

----------------------------------------------------------------------------
(* Account Service: service.UserService.  One action per repository call    *)
(* of a service method, with the service code up to the next call.          *)
(***************************************************************************)

Spend(fail) == faults' = IF fail THEN faults + 1 ELSE faults

\* No response is waiting to be written.  A response touches nothing but the
\* worker's own locals, so it is written as soon as the service has
\* returned, before any other statement runs (unless responses are held).
Quiet == held \/ \A w \in Workers : pc[w] # "done"

\* the handler of a free worker binds request r and calls the service
Call(w, r) ==
  /\ Quiet
  /\ pc[w] = "idle"
  /\ nops < MaxOps
  /\ nops' = nops + 1
  /\ req' = [req EXCEPT ![w] = r]

\* the service method returns e
Finish(w, e) ==
  /\ ret' = [ret EXCEPT ![w] = e]
  /\ pc' = [pc EXCEPT ![w] = "done"]

\* Create: s.repo.ExistsByUsername
CreateExistsByUsername(w) ==
  \E u \in Usernames, e \in Emails, fail \in FaultChoice :
       LET r == RepoExistsByUsername(backend, users, u, fail) IN
       /\ Call(w, CreateUserRequest(u, e))
       /\ user' = [user EXCEPT ![w] = NoUser]
       /\ Spend(fail)
       /\ err' = [err EXCEPT ![w] = r.err]
       /\ IF r.err # "nil" THEN Finish(w, "other")
          ELSE IF r.exists THEN Finish(w, "ErrUserAlreadyExists")
          ELSE /\ pc' = [pc EXCEPT ![w] = "Create:ExistsByEmail"]
               /\ ret' = [ret EXCEPT ![w] = "nil"]
  /\ UNCHANGED <<backend, held, users, users_id_seq, now, created, freed, fetched, list_vars>>

\* Create: s.repo.ExistsByEmail, then the password hash and the new struct
CreateExistsByEmail(w) ==
  /\ Quiet
  /\ pc[w] = "Create:ExistsByEmail"
  /\ \E fail \in FaultChoice :
       LET r == RepoExistsByEmail(backend, users, req[w].email, fail) IN
       /\ Spend(fail)
       /\ err' = [err EXCEPT ![w] = r.err]
       /\ IF r.err # "nil" THEN Finish(w, "other") /\ UNCHANGED user
          ELSE IF r.exists THEN Finish(w, "ErrEmailAlreadyUsed") /\ UNCHANGED user
          ELSE /\ pc' = [pc EXCEPT ![w] = "Create:Create"]
               /\ user' = [user EXCEPT ![w] =
                             [NoUser EXCEPT !.Username = req[w].username,
                                            !.Email = req[w].email,
                                            !.Status = UserStatusActive]]
               /\ UNCHANGED ret
  /\ UNCHANGED <<backend, held, users, users_id_seq, now, req, nops, created, freed, fetched, list_vars>>

\* Create: s.repo.Create
CreateInsert(w) ==
  /\ Quiet
  /\ pc[w] = "Create:Create"
  /\ \E fail \in FaultChoice :
       LET r == RepoCreate(backend, users, users_id_seq, now, user[w], fail) IN
       /\ Spend(fail)
       /\ err' = [err EXCEPT ![w] = r.err]
       /\ users' = r.users
       /\ users_id_seq' = r.seq
       /\ user' = [user EXCEPT ![w] = r.user]
       /\ IF r.err # "nil"
          THEN Finish(w, "other") /\ UNCHANGED <<now, created>>
          ELSE /\ Finish(w, "nil")
               /\ now' = now + 1
               /\ created' = Append(created, r.user.ID)
  /\ UNCHANGED <<backend, held, req, nops, freed, fetched, list_vars>>

\* GetByID: s.repo.GetByID
GetByID(w) ==
  /\ \E i \in ReqIds, fail \in FaultChoice :
       LET r == RepoGetByID(backend, users, i, fail) IN
       /\ Call(w, IdRequest("GetByID", i))
       /\ Spend(fail)
       /\ err' = [err EXCEPT ![w] = r.err]
       /\ user' = [user EXCEPT ![w] = r.user]
       /\ Finish(w, IF r.err # "nil" THEN "ErrUserNotFound" ELSE "nil")
  /\ UNCHANGED <<backend, held, users, users_id_seq, now, created, freed, fetched, list_vars>>

\* where Update goes after its fetch or after a lookup: the next supplied
\* field that needs a lookup, else the save
AfterFetch(r) ==
  IF r.username # "" THEN "Update:GetByUsername"
  ELSE IF r.email # "" THEN "Update:GetByEmail"
  ELSE "Update:Update"

AfterUsername(r) ==
  IF r.email # "" THEN "Update:GetByEmail" ELSE "Update:Update"

\* AssignStatus with a plain int Status, whose zero value is assigned too
AssignStatusZeroValue(u, r) ==
  IF r.status # NilStatus THEN [u EXCEPT !.Status = CHOOSE s \in r.status : TRUE]
  ELSE [u EXCEPT !.Status = 0]

\* if req.Status != nil { user.Status = *req.Status }
AssignStatus(u, r) ==
  IF r.status # NilStatus THEN [u EXCEPT !.Status = CHOOSE s \in r.status : TRUE]
  ELSE u

\* the struct as it is handed to repo.Update when pc reaches the save
Prepared(u, r, next) == IF next = "Update:Update" THEN AssignStatus(u, r) ELSE u

\* Update: s.repo.GetByID
UpdateGetByID(w) ==
  /\ \E i \in ReqIds, u \in Usernames \cup {""}, e \in Emails \cup {""},
        s \in StatusInputs, fail \in FaultChoice :
       LET q == UpdateUserRequest(i, u, e, s)
           r == RepoGetByID(backend, users, i, fail) IN
       /\ Call(w, q)
       /\ Spend(fail)
       /\ err' = [err EXCEPT ![w] = r.err]
       /\ IF r.err # "nil"
          THEN /\ Finish(w, "ErrUserNotFound")
               /\ user' = [user EXCEPT ![w] = NoUser]
          ELSE /\ pc' = [pc EXCEPT ![w] = AfterFetch(q)]
               /\ user' = [user EXCEPT ![w] = Prepared(r.user, q, AfterFetch(q))]
               /\ ret' = [ret EXCEPT ![w] = "nil"]
       /\ fetched' = [fetched EXCEPT ![w] = r.user]
  /\ UNCHANGED <<backend, held, users, users_id_seq, now, created, freed, list_vars>>

\* Conflict without the comparison of ids
ConflictWithSelf(r, id) == r.err = "nil"

\* err == nil && existingUser.ID != id
Conflict(r, id) == r.err = "nil" /\ r.user.ID # id

\* Update: s.repo.GetByUsername
UpdateGetByUsername(w) ==
  /\ Quiet
  /\ pc[w] = "Update:GetByUsername"
  /\ \E fail \in FaultChoice :
       LET r == RepoGetByUsername(backend, users, req[w].username, fail) IN
       /\ Spend(fail)
       /\ err' = [err EXCEPT ![w] = r.err]
       /\ IF Conflict(r, req[w].id)
          THEN Finish(w, "ErrUserAlreadyExists") /\ UNCHANGED user
          ELSE /\ pc' = [pc EXCEPT ![w] = AfterUsername(req[w])]
               /\ user' = [user EXCEPT ![w] =
                             Prepared([user[w] EXCEPT !.Username = req[w].username],
                                      req[w], AfterUsername(req[w]))]
               /\ UNCHANGED ret
  /\ UNCHANGED <<backend, held, users, users_id_seq, now, req, nops, created, freed, fetched, list_vars>>

\* Update: s.repo.GetByEmail
UpdateGetByEmail(w) ==
  /\ Quiet
  /\ pc[w] = "Update:GetByEmail"
  /\ \E fail \in FaultChoice :
       LET r == RepoGetByEmail(backend, users, req[w].email, fail) IN
       /\ Spend(fail)
       /\ err' = [err EXCEPT ![w] = r.err]
       /\ IF Conflict(r, req[w].id)
          THEN Finish(w, "ErrEmailAlreadyUsed") /\ UNCHANGED user
          ELSE /\ pc' = [pc EXCEPT ![w] = "Update:Update"]
               /\ user' = [user EXCEPT ![w] =
                             AssignStatus([user[w] EXCEPT !.Email = req[w].email], req[w])]
               /\ UNCHANGED ret
  /\ UNCHANGED <<backend, held, users, users_id_seq, now, req, nops, created, freed, fetched, list_vars>>

\* Update: s.repo.Update
UpdateSave(w) ==
  /\ Quiet
  /\ pc[w] = "Update:Update"
  /\ \E fail \in FaultChoice :
       LET r == RepoUpdate(backend, users, now, user[w], fail) IN
       /\ Spend(fail)
       /\ err' = [err EXCEPT ![w] = r.err]
       /\ users' = r.users
       /\ user' = [user EXCEPT ![w] = r.user]
       /\ IF r.err # "nil"
          THEN Finish(w, "other") /\ UNCHANGED now
          ELSE Finish(w, "nil") /\ now' = now + 1
  /\ UNCHANGED <<backend, held, users_id_seq, req, nops, created, freed, fetched, list_vars>>

\* Delete: s.repo.GetByID
DeleteGetByID(w) ==
  /\ \E i \in ReqIds, fail \in FaultChoice :
       LET r == RepoGetByID(backend, users, i, fail) IN
       /\ Call(w, IdRequest("Delete", i))
       /\ Spend(fail)
       /\ err' = [err EXCEPT ![w] = r.err]
       /\ user' = [user EXCEPT ![w] = NoUser]
       /\ IF r.err # "nil"
          THEN Finish(w, "ErrUserNotFound")
          ELSE /\ pc' = [pc EXCEPT ![w] = "Delete:Delete"]
               /\ ret' = [ret EXCEPT ![w] = "nil"]
  /\ UNCHANGED <<backend, held, users, users_id_seq, now, created, freed, fetched, list_vars>>

\* Delete: return s.repo.Delete(ctx, id)
DeleteDelete(w) ==
  /\ Quiet
  /\ pc[w] = "Delete:Delete"
  /\ \E fail \in FaultChoice :
       LET r == RepoDelete(backend, users, req[w].id, fail) IN
       /\ Spend(fail)
       /\ err' = [err EXCEPT ![w] = r.err]
       /\ users' = r.users
       /\ freed' = freed \cup {x.ID : x \in users \ r.users}
       /\ Finish(w, IF r.err # "nil" THEN "other" ELSE "nil")
  /\ UNCHANGED <<backend, held, users_id_seq, now, req, user, nops, created, fetched, list_vars>>

\* ShouldBindQuery: binding:"omitempty,min=1" of Page and
\* binding:"omitempty,min=1,max=100" of PageSize; 0 is the empty value
ShouldBindQuery(p) ==
  /\ p.Page = 0 \/ p.Page >= 1
  /\ p.PageSize = 0 \/ (p.PageSize >= 1 /\ p.PageSize <= MaxPageSize)

\* response.SuccessPage(c, users, total, page, pageSize) of the handler,
\* which works page and pageSize out again from params
SuccessPage(r, n, p) ==
  [code |-> "Success", list |-> r.users, total |-> n, page |-> Page(p),
   page_size |-> PageSize(p), limit |-> r.limit, offset |-> r.offset]

Answer(c) == [NoPageData EXCEPT !.code = c]

\* List: the handler binds the query, s.repo.List counts the rows
ListCount(w) ==
  /\ Quiet /\ pc[w] = "idle" /\ nops < MaxOps
  /\ \E f \in FilterInputs, win \in WindowInputs, fail \in FaultChoice :
       LET p == UserQueryParams(f[1], f[2], f[3], win[1], win[2])
           r == RepoCount(backend, users, p, fail) IN
       /\ Call(w, IdRequest("List", 0))
       /\ params' = [params EXCEPT ![w] = p]
       /\ IF ~ShouldBindQuery(p)
          THEN /\ ~fail
               /\ Finish(w, "nil")
               /\ page_data' = [page_data EXCEPT ![w] = Answer("BadRequest")]
               /\ UNCHANGED <<faults, err, total>>
          ELSE /\ Spend(fail)
               /\ err' = [err EXCEPT ![w] = r.err]
               /\ total' = [total EXCEPT ![w] = r.total]
               /\ IF r.err # "nil"
                  THEN /\ Finish(w, "other")
                       /\ page_data' = [page_data EXCEPT ![w] = Answer("ServerError")]
                  ELSE /\ pc' = [pc EXCEPT ![w] = "List:Find"]
                       /\ UNCHANGED <<ret, page_data>>
  /\ UNCHANGED <<backend, held, users, users_id_seq, now, user, created, freed, fetched, pages>>

\* List: s.repo.List reads the page, the handler answers
ListFind(w) ==
  /\ Quiet
  /\ pc[w] = "List:Find"
  /\ \E fail \in FaultChoice :
       LET r == RepoFind(backend, users, params[w], fail) IN
       /\ Spend(fail)
       /\ err' = [err EXCEPT ![w] = r.err]
       /\ IF r.err # "nil"
          THEN /\ Finish(w, "other")
               /\ page_data' = [page_data EXCEPT ![w] = Answer("ServerError")]
          ELSE /\ Finish(w, "nil")
               /\ page_data' = [page_data EXCEPT ![w] = SuccessPage(r, total[w], params[w])]
  /\ UNCHANGED <<backend, held, users, users_id_seq, now, req, user, nops, created,
                 freed, fetched, params, total, pages>>

\* the handler writes the response for what the service returned and the
\* worker is free again
Respond(w) ==
  /\ ~held
  /\ pc[w] = "done"
  /\ pc' = [pc EXCEPT ![w] = "idle"]
  /\ req' = [req EXCEPT ![w] = NoReq]
  /\ user' = [user EXCEPT ![w] = NoUser]
  /\ err' = [err EXCEPT ![w] = "nil"]
  /\ ret' = [ret EXCEPT ![w] = "nil"]
  /\ fetched' = [fetched EXCEPT ![w] = NoUser]
  /\ params' = [params EXCEPT ![w] = NoParams]
  /\ total' = [total EXCEPT ![w] = 0]
  /\ page_data' = [page_data EXCEPT ![w] = NoPageData]
  /\ UNCHANGED <<backend, held, users, users_id_seq, now, faults, nops, created, freed, pages>>

----------------------------------------------------------------------------

\* the tables the service may find when it starts: those earlier Creates left
Row(i, u, e) ==
  [ID |-> i, Username |-> u, Email |-> e, Status |-> UserStatusActive,
   CreatedAt |-> i, UpdatedAt |-> i]

InitialTables ==
  { {}, {Row(1, "alice", "a@x.com")},
    {Row(1, "alice", "a@x.com"), Row(2, "bob", "b@x.com")},
    {Row(1, "alice", "a@x.com"), Row(2, "carol", "c@x.com")} }

Start(h) ==
  /\ held = h
  /\ backend \in Backends
  /\ users \in InitialTables
  /\ users_id_seq = Cardinality(users)
  /\ now = Cardinality(users) + 1
  /\ pc = [w \in Workers |-> "idle"]
  /\ req = [w \in Workers |-> NoReq]
  /\ user = [w \in Workers |-> NoUser]
  /\ err = [w \in Workers |-> "nil"]
  /\ ret = [w \in Workers |-> "nil"]
  /\ faults = 0
  /\ nops = 0
  /\ created = [i \in 1..Cardinality(users) |-> i]
  /\ freed = {}
  /\ fetched = [w \in Workers |-> NoUser]
  /\ params = [w \in Workers |-> NoParams]
  /\ total = [w \in Workers |-> 0]
  /\ page_data = [w \in Workers |-> NoPageData]
  /\ pages = << >>

Init == Start(FALSE)

\* one statement of one request
Statement(w) ==
    \/ CreateExistsByUsername(w)
    \/ CreateExistsByEmail(w)
    \/ CreateInsert(w)
    \/ GetByID(w)
    \/ UpdateGetByID(w)
    \/ UpdateGetByUsername(w)
    \/ UpdateGetByEmail(w)
    \/ UpdateSave(w)
    \/ DeleteGetByID(w)
    \/ DeleteDelete(w)

Next == \E w \in Workers : Respond(w) \/ Statement(w) \/ ListCount(w) \/ ListFind(w)

Spec == Init /\ [][Next]_vars

\* Two requests side by side: each worker serves one request, the statements
\* of the two interleave in every way, and both results stay in view.
InitPair == Start(TRUE)

NextPair == \E w \in Workers : Statement(w)

SpecPair == InitPair /\ [][NextPair]_vars

\* A walk through the list: a client reads page 1, 2, ... with page_size 10
\* and one filter, on a table that nothing writes meanwhile, until a page
\* comes back empty.  The tables hold up to MaxRows rows, with ids 1..n less
\* one deleted id, and all three statuses.
WalkRow(i) ==
  [ID |-> i, Username |-> "user" \o ToString(i), Email |-> ToString(i) \o "@x.com",
   Status |-> i % 3, CreatedAt |-> i, UpdatedAt |-> i]

WalkStatus == {NilStatus, {UserStatusActive}, {UserStatusBanned}}

InitWalk ==
  /\ held = FALSE
  /\ backend \in Backends
  /\ \E n \in 0..MaxRows : \E d \in 0..n :
       /\ users = {WalkRow(i) : i \in (1..n) \ {d}}
       /\ users_id_seq = n
       /\ now = n + 1
       /\ created = [i \in 1..n |-> i]
       /\ freed = (1..n) \cap {d}
  /\ pc = [w \in Workers |-> "idle"]
  /\ req = [w \in Workers |-> NoReq]
  /\ user = [w \in Workers |-> NoUser]
  /\ err = [w \in Workers |-> "nil"]
  /\ ret = [w \in Workers |-> "nil"]
  /\ faults = 0
  /\ nops = 0
  /\ fetched = [w \in Workers |-> NoUser]
  /\ \E s \in WalkStatus :
       params = [w \in Workers |-> UserQueryParams("", "", s, 0, DefaultPageSize)]
  /\ total = [w \in Workers |-> 0]
  /\ page_data = [w \in Workers |-> NoPageData]
  /\ pages = << >>

\* one List call from the query to the answer, on a table nothing writes
\* meanwhile and with statements that do not fail for the connection
ListCall(w, p) ==
  LET c == RepoCount(backend, users, p, FALSE)
      r == RepoFind(backend, users, p, FALSE) IN
  /\ ShouldBindQuery(p)
  /\ params' = [params EXCEPT ![w] = p]
  /\ total' = [total EXCEPT ![w] = c.total]
  /\ err' = [err EXCEPT ![w] = r.err]
  /\ page_data' = [page_data EXCEPT ![w] =
                     IF r.err = "nil" THEN SuccessPage(r, c.total, p)
                     ELSE Answer("ServerError")]
  /\ UNCHANGED <<backend, held, users, users_id_seq, now, pc, req, user, ret,
                 faults, nops, created, freed, fetched>>

\* the walk reads its next page
List(w) ==
  /\ IF Len(pages) = 0 THEN TRUE ELSE pages[Len(pages)] # << >>
  /\ ListCall(w, [params[w] EXCEPT !.Page = Len(pages) + 1])
  /\ pages' = Append(pages, page_data'[w].list)

\* pages far past the end: the last whose offset is an int, the next one
\* and the last page there is
FarPages == {MaxInt \div DefaultPageSize + 1, MaxInt \div DefaultPageSize + 2, MaxInt}

\* after the walk, the client asks for a page far past the end
ListFar(w) ==
  /\ Len(pages) > 0
  /\ pages[Len(pages)] = << >>
  /\ \E k \in FarPages : ListCall(w, [params[w] EXCEPT !.Page = k])
  /\ UNCHANGED pages

NextWalk == List("w1") \/ ListFar("w1")

SpecWalk == InitWalk /\ [][NextWalk]_vars

----------------------------------------------------------------------------
(* Properties *)

Done(w, op) == pc[w] = "done" /\ req[w].op = op

\* C1: in every reachable state, whatever the interleaving of Create, Update
\* and Delete requests, no two rows of users share a username and no two
\* share an email.
UniqueUsernameAndEmail ==
  \A r1 \in users, r2 \in users :
    r1 # r2 => r1.Username # r2.Username /\ r1.Email # r2.Email

\* C1 case: a request got past the service's own checks and the table's
\* constraint turned its write down, on username and on email
UniqueConstraintStruck ==
  \E w \in Workers :
    /\ pc[w] = "done"
    /\ req[w].op \in {"Create", "Update"}
    /\ err[w] = "users_email_key"
    /\ RowsByEmail(users, user[w].Email) # {}

\* C2: two Create requests with the same username and different emails, in
\* any interleaving of their existence checks and inserts, end with exactly
\* one success and the other returning ErrUserAlreadyExists.  (The username
\* and both emails are free when the two start; no statement fails.)
CreateRaceOneWinner ==
  \A w1 \in Workers, w2 \in Workers :
    ( /\ w1 # w2
      /\ Done(w1, "Create") /\ Done(w2, "Create")
      /\ req[w1].username = req[w2].username
      /\ req[w1].email # req[w2].email
      /\ faults = 0
      /\ \A r \in users \ {user[w1], user[w2]} :
           /\ r.Username # req[w1].username
           /\ r.Email \notin {req[w1].email, req[w2].email} )
    => \E a \in {w1, w2} :
         /\ ret[a] = "nil"
         /\ \A b \in {w1, w2} \ {a} : ret[b] = "ErrUserAlreadyExists"

\* C3: whenever the Record Store's create rejects an insert for a uniqueness
\* constraint, Create returns the AlreadyExists error of that field
\* (ErrUserAlreadyExists for username, ErrEmailAlreadyUsed for email), never
\* a generic store error.
ConstraintViolationMapped ==
  \A w \in Workers :
    Done(w, "Create") =>
      /\ err[w] = "users_username_key" => ret[w] = "ErrUserAlreadyExists"
      /\ err[w] = "users_email_key" => ret[w] = "ErrEmailAlreadyUsed"

\* C4: GetByID, Update and Delete return NotFound only when no row with the
\* given id exists; when a repository call of theirs fails with a
\* backing-store error the caller gets StoreError, never NotFound.
NotFoundOnlyWhenNoRow ==
  \A w \in Workers :
    (pc[w] = "done" /\ req[w].op \in {"GetByID", "Update", "Delete"}) =>
      /\ Outcome(ret[w]) = "NotFound" => err[w] = "not_found"
      /\ err[w] = "conn" => Outcome(ret[w]) = "StoreError"

\* C5: a Delete that meets no store failure ends in success or NotFound,
\* never StoreError, and of two concurrent Deletes of the same live id
\* exactly one returns success and the other NotFound, also when the row
\* goes between the second Delete's existence check and its DELETE.
DeleteRaceOneWinner ==
  /\ \A w \in Workers :
       (Done(w, "Delete") /\ faults = 0) =>
         Outcome(ret[w]) \in {"Success", "NotFound"}
  /\ \A w1 \in Workers, w2 \in Workers :
       ( /\ w1 # w2
         /\ Done(w1, "Delete") /\ Done(w2, "Delete")
         /\ req[w1].id = req[w2].id
         /\ req[w1].id \in freed
         /\ faults = 0 )
       => \E a \in {w1, w2} :
            /\ Outcome(ret[a]) = "Success"
            /\ \A b \in {w1, w2} \ {a} : Outcome(ret[b]) = "NotFound"

----------------------------------------------------------------------------
(* Steps, for the properties of single statements *)

\* the step is a statement of worker w
Stepped(w) == pc'[w] # pc[w]
\* the statement of the step did not fail with a connectivity error
NoFault == faults' = faults
\* the step is the save of w's Update and the Update returns success
UpdateSaved(w) == pc[w] = "Update:Update" /\ pc'[w] = "done" /\ ret'[w] = "nil"

Ids(tbl) == {r.ID : r \in tbl}
RowOf(tbl, id) == FirstRow(RowsById(tbl, id))
Supplied(r) == CHOOSE s \in r.status : TRUE

UpdateConflictChecks ==
  [][\A w \in Workers :
       /\ (pc[w] = "Update:GetByUsername" /\ Stepped(w) /\ NoFault) =>
            IF \E r \in users : r.Username = req[w].username /\ r.ID # req[w].id
            THEN pc'[w] = "done" /\ ret'[w] = "ErrUserAlreadyExists"
            ELSE pc'[w] # "done" /\ user'[w].Username = req[w].username
       /\ (pc[w] = "Update:GetByEmail" /\ Stepped(w) /\ NoFault) =>
            IF \E r \in users : r.Email = req[w].email /\ r.ID # req[w].id
            THEN pc'[w] = "done" /\ ret'[w] = "ErrEmailAlreadyUsed"
            ELSE pc'[w] = "Update:Update" /\ user'[w].Email = req[w].email
       /\ (Stepped(w) /\ req'[w].op = "Update" /\ pc[w] # "Update:Update") =>
            users' = users
       /\ ( /\ pc[w] = "Update:Update" /\ Stepped(w) /\ NoFault
            /\ fetched[w] \in users
            /\ req[w].username \in {"", fetched[w].Username}
            /\ req[w].email \in {"", fetched[w].Email}
            /\ req[w].username # "" \/ req[w].email # "" )
          => pc'[w] = "done" /\ ret'[w] = "nil"]_vars

\* C7 case: an Update that supplied the target's own username and an email
\* held by another record was turned down for the email; the target is as
\* it was
UpdateTurnedDownForEmail ==
  \E w \in Workers :
    /\ Done(w, "Update") /\ ret[w] = "ErrEmailAlreadyUsed"
    /\ req[w].username = fetched[w].Username
    /\ fetched[w] \in users
    /\ \E r \in users : r.Email = req[w].email /\ r.ID # req[w].id

\* C8: Create checks the username before the email: when the username is
\* held by a live record Create returns ErrUserAlreadyExists, whether or not
\* the email is held too; when the username is free and the email is held it
\* returns ErrEmailAlreadyUsed; in both cases no insert is attempted (no row
\* is added and no id is drawn), an insert being made only by the call that
\* follows both checks.  (Statements that do not fail.)
CreateChecksUsernameFirst ==
  [][\A w \in Workers :
       /\ ( /\ pc[w] = "idle" /\ req'[w].op = "Create" /\ NoFault
            /\ RowsByUsername(users, req'[w].username) # {} )
          => /\ pc'[w] = "done" /\ ret'[w] = "ErrUserAlreadyExists"
             /\ users' = users /\ users_id_seq' = users_id_seq
       /\ ( /\ pc[w] = "Create:ExistsByEmail" /\ Stepped(w) /\ NoFault
            /\ RowsByEmail(users, req[w].email) # {} )
          => /\ pc'[w] = "done" /\ ret'[w] = "ErrEmailAlreadyUsed"
             /\ users' = users /\ users_id_seq' = users_id_seq
       /\ ( /\ Stepped(w) /\ req'[w].op = "Create"
            /\ users' # users \/ users_id_seq' # users_id_seq )
          => pc[w] = "Create:Create"]_vars

\* C8 case: a Create whose username and email are both held was turned down
\* for the username
CreateTurnedDownForUsername ==
  \E w \in Workers :
    /\ Done(w, "Create") /\ ret[w] = "ErrUserAlreadyExists"
    /\ RowsByUsername(users, req[w].username) # {}
    /\ RowsByEmail(users, req[w].email) # {}
    /\ user[w] = NoUser

\* C9: every successful Create returns and stores a record whose username
\* and email are the request's, whose status is active (1), whose id differs
\* from the id of every other record, and whose created_at equals its
\* updated_at.
CreateResult ==
  \A w \in Workers :
    (Done(w, "Create") /\ ret[w] = "nil") =>
      /\ user[w] \in users
      /\ user[w].Username = req[w].username
      /\ user[w].Email = req[w].email
      /\ user[w].Status = UserStatusActive
      /\ user[w].Status = 1
      /\ \A r \in users : r # user[w] => r.ID # user[w].ID
      /\ user[w].CreatedAt = user[w].UpdatedAt

\* C9 case: a Create has succeeded next to other records
CreateDoneAmongOthers ==
  \E w \in Workers :
    /\ Done(w, "Create") /\ ret[w] = "nil"
    /\ user[w] \in users
    /\ Cardinality(users) >= 2

\* C10: the ids of successful Creates are strictly increasing in the order
\* of the Creates, a Create never gets an id that Delete freed or that a
\* record holds, and no statement of an Update changes the id of a record:
\* every record keeps its id and the only id an Update can write is its
\* target's.
IdsIncreaseAndStay ==
  [][/\ created' # created =>
          LET id == created'[Len(created')] IN
          /\ Len(created') = Len(created) + 1
          /\ \A i \in 1..Len(created) : created'[i] = created[i] /\ created[i] < id
          /\ id \notin freed
          /\ id \notin Ids(users)
          /\ id \in Ids(users')
     /\ \A w \in Workers :
          (Stepped(w) /\ req'[w].op = "Update") =>
            /\ Ids(users) \subseteq Ids(users')
            /\ Ids(users') \subseteq Ids(users) \cup {req'[w].id}
            /\ \A r \in users : r.ID # req'[w].id => r \in users'
            /\ (pc'[w] = "done" /\ ret'[w] = "nil") => user'[w].ID = req'[w].id]_vars

\* C10 case: a Create has succeeded after a Delete freed an id
CreateDoneAfterDelete ==
  \E w \in Workers :
    /\ Done(w, "Create") /\ ret[w] = "nil"
    /\ freed # {}
    /\ Len(created) >= 2
    /\ created[Len(created)] = user[w].ID
    /\ \A i \in freed : i < user[w].ID

----------------------------------------------------------------------------
(* List *)

\* sub is a substring of s
Contains(sub, s) ==
  \E i \in 0..(Len(s) - Len(sub)) : SubSeq(s, i + 1, i + Len(sub)) = sub

\* r satisfies every filter predicate that p supplies: username contains,
\* email contains, status equals
Satisfies(r, p) ==
  /\ p.Username # "" => Contains(Chars(p.Username), Chars(r.Username))
  /\ p.Email # "" => Contains(Chars(p.Email), Chars(r.Email))
  /\ p.Status # NilStatus => r.Status \in p.Status

RECURSIVE Concat(_)
Concat(ps) == IF ps = << >> THEN << >> ELSE Head(ps) \o Concat(Tail(ps))

\* the pages that hold N records, ten to a page
NumPages(N) == (N + DefaultPageSize - 1) \div DefaultPageSize

\* the walk's filter matches `match`; the pages that hold its records
WalkMatch == {r \in users : Satisfies(r, params["w1"])}
WalkPages == NumPages(Cardinality(WalkMatch))

\* pages 1..ceil(N/10) of the walk, concatenated in page order, hold exactly
\* the N matching records, each once, in strictly descending id order
WalkHoldsEveryId ==
  LET N == Cardinality(WalkMatch)
      read == Concat(SubSeq(pages, 1, WalkPages))
  IN /\ \A k \in 1..Len(pages) : k < WalkPages => Len(pages[k]) = DefaultPageSize
     /\ (Len(pages) >= WalkPages) =>
          /\ Len(read) = N
          /\ {read[i].ID : i \in 1..N} = {r.ID : r \in WalkMatch}
          /\ \A i \in 1..N : read[i] \in WalkMatch
          /\ \A i \in 1..N, j \in 1..N : i < j => read[i].ID > read[j].ID

TotalIsFilteredCount ==
  [][\A w \in Workers :
       /\ (pc[w] = "idle" /\ pc'[w] = "List:Find") =>
            total'[w] = Cardinality({r \in users : Satisfies(r, params'[w])})
       /\ (pc[w] = "List:Find" /\ page_data'[w].code = "Success") =>
            page_data'[w].total = total[w]]_vars

\* the window the claim gives a request: page below 1 is 1, page_size below
\* 1 is 10, page_size above 100 is 100
ClampedPage(p) == IF p.Page < 1 THEN 1 ELSE p.Page
ClampedPageSize(p) ==
  IF p.PageSize < 1 THEN DefaultPageSize
  ELSE IF p.PageSize > MaxPageSize THEN MaxPageSize ELSE p.PageSize

\* C13: List clamps its window: every List request, whatever its page and
\* page_size, is served (unless a statement fails for the connection) with
\* page below 1 treated as 1, page_size below 1 treated as 10 and page_size
\* never above 100; the offset used is (page-1)*page_size; no answer holds
\* more than 100 records; the page and page_size reported are the ones used.
ListClampsWindow ==
  \A w \in Workers :
    (pc[w] = "done" /\ req[w].op = "List" /\ err[w] # "conn") =>
      LET d == page_data[w] IN
      /\ d.code = "Success"
      /\ d.page = ClampedPage(params[w])
      /\ d.page_size = ClampedPageSize(params[w])
      /\ d.limit = d.page_size /\ d.limit <= MaxPageSize
      /\ d.offset = (d.page - 1) * d.page_size
      /\ Len(d.list) <= MaxPageSize

DeletedStaysGone ==
  /\ [](\A i \in freed : RowsById(users, i) = {})
  /\ [][\A w \in Workers :
          /\ (pc[w] = "Delete:Delete" /\ pc'[w] = "done" /\ ret'[w] = "nil") =>
               /\ RowsById(users', req[w].id) = {}
               /\ users' = users \ RowsById(users, req[w].id)
          /\ (pc[w] = "idle" /\ req'[w].op = "GetByID" /\ req'[w].id \in freed) =>
               ret'[w] = "ErrUserNotFound"
          /\ (pc[w] = "List:Find" /\ page_data'[w].code = "Success") =>
               \A k \in 1..Len(page_data'[w].list) : page_data'[w].list[k].ID \notin freed
          /\ ( /\ pc[w] = "Create:Create" /\ Stepped(w) /\ NoFault
               /\ RowsByUsername(users, user[w].Username) = {}
               /\ RowsByEmail(users, user[w].Email) = {} )
             => ret'[w] = "nil" /\ user'[w] \in users']_vars

\* C16: when the username lookup or the email lookup inside Update fails
\* with a backing-store error, Update returns StoreError there and persists
\* nothing; it does not go on to assign and save the field.
UpdateLookupErrorReturned ==
  [][\A w \in Workers :
       ( /\ pc[w] \in {"Update:GetByUsername", "Update:GetByEmail"}
         /\ Stepped(w)
         /\ err'[w] = "conn" )
       => /\ pc'[w] = "done"
          /\ Outcome(ret'[w]) = "StoreError"
          /\ users' = users]_vars

\* C17: Record Store update of a record whose id has no row returns NotFound
\* and creates no row: when the row is gone at the save of an Update (a
\* Delete of the id completed after the Update's fetch), the Update fails
\* with NotFound and the table stays as it is.
UpdateOfMissingRowNotFound ==
  [][\A w \in Workers :
       ( /\ pc[w] = "Update:Update" /\ Stepped(w) /\ NoFault
         /\ RowsById(users, req[w].id) = {} )
       => /\ Outcome(ret'[w]) = "NotFound"
          /\ users' = users]_vars

\* C18: two concurrent Updates on two different live ids that supply the
\* same new username (or the same new email), in any interleaving of their
\* lookups and saves, end with at most one success, and the one turned down
\* gets an AlreadyExists error, not a generic store error.  (No statement
\* fails for the connection.)
UpdateRaceOneWinner ==
  \A w1 \in Workers, w2 \in Workers :
    ( /\ w1 # w2
      /\ Done(w1, "Update") /\ Done(w2, "Update")
      /\ req[w1].id # req[w2].id
      /\ ret[w1] # "ErrUserNotFound" /\ ret[w2] # "ErrUserNotFound"
      /\ \/ req[w1].username # "" /\ req[w1].username = req[w2].username
         \/ req[w1].email # "" /\ req[w1].email = req[w2].email
      /\ faults = 0 )
    => /\ ~(ret[w1] = "nil" /\ ret[w2] = "nil")
       /\ \A a \in {w1, w2} :
            ret[a] # "nil" => ret[a] \in {"ErrUserAlreadyExists", "ErrEmailAlreadyUsed"}

\* w1 and w2 have both returned success from Updates of the same id, w1
\* having supplied only username or email and w2 only status
DisjointUpdatesDone(w1, w2) ==
  /\ w1 # w2
  /\ Done(w1, "Update") /\ Done(w2, "Update")
  /\ ret[w1] = "nil" /\ ret[w2] = "nil"
  /\ req[w1].id = req[w2].id
  /\ req[w1].status = NilStatus
  /\ req[w1].username # "" \/ req[w1].email # ""
  /\ req[w2].username = "" /\ req[w2].email = "" /\ req[w2].status # NilStatus

\* the fields that req supplies have the supplied values in row r
Carries(r, q) ==
  /\ q.username # "" => r.Username = q.username
  /\ q.email # "" => r.Email = q.email
  /\ q.status # NilStatus => r.Status = Supplied(q)

\* C19 as claimed: two concurrent successful Updates on the same id that
\* supply disjoint fields (one only username or email, the other only
\* status) leave a record that carries both changes.
DisjointUpdatesBothKept ==
  \A w1 \in Workers, w2 \in Workers :
    DisjointUpdatesDone(w1, w2) =>
      /\ Carries(RowOf(users, req[w1].id), req[w1])
      /\ Carries(RowOf(users, req[w1].id), req[w2])

\* C19 as amended: the record left is the one the later save wrote: it
\* carries the change of that Update and, in every other field, the value
\* that Update fetched, so that it carries the change of the earlier Update
\* exactly when the later Update fetched the record after the earlier save.
DisjointUpdatesLastSaveWins ==
  \A w1 \in Workers, w2 \in Workers :
    DisjointUpdatesDone(w1, w2) =>
      /\ RowsById(users, req[w1].id) # {}
      /\ \E a \in {w1, w2} : \E b \in {w1, w2} \ {a} :
           LET r == RowOf(users, req[w1].id) IN
           /\ r = user[a]
           /\ Carries(r, req[a])
           /\ req[a].username = "" => r.Username = fetched[a].Username
           /\ req[a].email = "" => r.Email = fetched[a].Email
           /\ req[a].status = NilStatus => r.Status = fetched[a].Status
           /\ Carries(r, req[b]) <=> Carries(fetched[a], req[b])

\* C19 case: both Updates fetched the record before either saved, and the
\* record left has lost the change of one of them
DisjointUpdatesOneLost ==
  \E w1 \in Workers, w2 \in Workers :
    /\ DisjointUpdatesDone(w1, w2)
    /\ fetched[w1] = fetched[w2]
    /\ ~Carries(fetched[w1], req[w1]) /\ ~Carries(fetched[w2], req[w2])
    /\ \E a \in {w1, w2} : ~Carries(RowOf(users, req[w1].id), req[a])

\* C20: a Create, Update or Delete that returns an error has written
\* nothing: the statement of a request that changes the table is its last
\* one and the request then returns success; every other statement, and in
\* particular the one after which a request returns an error, leaves the
\* set of records and every field of every record as it was.
FailedRequestWritesNothing ==
  [][\A w \in Workers :
       (Stepped(w) /\ req'[w].op \in {"Create", "Update", "Delete"}) =>
         /\ (pc'[w] = "done" /\ ret'[w] # "nil") => users' = users
         /\ pc'[w] # "done" => users' = users
         /\ users' # users =>
              /\ pc[w] \in {"Create:Create", "Update:Update", "Delete:Delete"}
              /\ pc'[w] = "done" /\ ret'[w] = "nil"]_vars

\* C20 case: the write of a request was turned down by the table (unique
\* violation, or no row left to delete or update) and the request returned
\* an error
WriteTurnedDown ==
  \E w \in Workers :
    /\ pc[w] = "done"
    /\ req[w].op \in {"Create", "Update", "Delete"}
    /\ ret[w] = "other"
    /\ err[w] \in {"users_username_key", "not_found"}
    /\ users # {}

====
